---------------------------- MODULE Spec2Model ----------------------------
(***************************************************************************)
(* A model of the skiing game (ketanwip/skiing): the terrain streamer      *)
(* (class Terrain, src/js/player.js), the obstacle spawner (class          *)
(* ObstacleManager, src/js/obstacles.js), the player controller (class     *)
(* Player, src/js/player.js) and the frame loop (class Game,               *)
(* src/js/game.js).                                                        *)
(*                                                                         *)
(* Every method is a pure operator from the object's state (a record) and  *)
(* the method's inputs to the object's next state; the actions apply the   *)
(* operators to the variables.  The physics engine (cannon.js) is a black  *)
(* box: the position it gives the player body, and whether the             *)
(* construction of a collision body throws, are inputs of the actions.     *)
(* Lengths are in world units; Math.random() is r/10 for an input r drawn  *)
(* from a small subset of 0..9.                                            *)
(***************************************************************************)
EXTENDS Integers, Sequences, FiniteSets, TLC

VARIABLES
    terrain,    \* the Terrain instance held by Game.terrain
    om,         \* the ObstacleManager instance
    player,     \* the Player instance (with the state of its physics body)
    game,       \* the Game instance and the animation-frame scheduler
    world,      \* physics.world.bodies: the set of registered bodies
    dom,        \* the DOM elements the game writes to
    hist        \* history variables: what the claims observe about a run

vars == <<terrain, om, player, game, world, dom, hist>>

(***************************************************************************)
(* Small helpers.                                                          *)
(***************************************************************************)
Abs(n) == IF n < 0 THEN -n ELSE n

Min(a, b) == IF a < b THEN a ELSE b

Range(s) == {s[i] : i \in 1..Len(s)}

(***************************************************************************)
(*                               TERRAIN                                   *)
(***************************************************************************)

\* Terrain.chunkSize, Terrain.visibleChunks
chunkSize == 500
visibleChunks == 5

\* The largest chunk index the player position is drawn from.
MaxPlayerChunk == 6

\* Player z positions handed to Terrain.update: the start of every chunk from
\* one chunk behind the origin to MaxPlayerChunk, and a point inside each.
TerrainZs ==
    {-(chunkSize * k) : k \in -1..MaxPlayerChunk}
        \cup {-(chunkSize * k) - 250 : k \in 0..MaxPlayerChunk}

\* Terrain.addTerrainPhysics: builds the height-field body of chunk chunkIndex,
\* registers it with the world and appends {body, chunkIndex} to terrainBodies.
\* When the construction throws (fail) the catch block logs and nothing is
\* registered.  m is the program state: m.t the Terrain, m.w the world's bodies.
addTerrainPhysics(m, chunkIndex, fail) ==
    IF fail
    THEN m
    ELSE LET body == <<"terrain", m.t.gen, m.t.made>>
         IN  [m EXCEPT
                 !.t.terrainBodies =
                     Append(@, [body |-> body, chunkIndex |-> chunkIndex]),
                 !.t.made = @ + 1,
                 !.w = @ \cup {body}]

\* Terrain.generateChunk: the mesh of chunk chunkIndex (the model keeps its
\* index) and, through addTerrainPhysics, its collision body.
generateChunk(m, chunkIndex, fail) == addTerrainPhysics(m, chunkIndex, fail)

\* scene.add(chunk); terrainChunks.push(chunk) of a freshly generated chunk.
pushChunk(m, chunkIndex) ==
    [m EXCEPT !.t.terrainChunks = Append(@, chunkIndex)]

\* Terrain.generateInitialChunks: chunks 0 .. visibleChunks-1, in order.
\* fails is the set of chunk indices whose body construction throws.
RECURSIVE generateInitialChunksFrom(_, _, _)
generateInitialChunksFrom(m, i, fails) ==
    IF i >= visibleChunks
    THEN m
    ELSE generateInitialChunksFrom(
             pushChunk(generateChunk(m, i, i \in fails), i), i + 1, fails)

generateInitialChunks(m, fails) == generateInitialChunksFrom(m, 0, fails)

\* new Terrain(scene, physics) assigned to game.terrain: instance number gen.
\* made numbers the bodies the instance built; threw records that the last
\* update call ended in an exception.
NewTerrain(m, gen, fails) ==
    generateInitialChunks(
        [m EXCEPT !.t = [gen |-> gen, terrainChunks |-> <<>>,
                         currentChunkIndex |-> 0, terrainBodies |-> <<>>,
                         made |-> 0, threw |-> FALSE]],
        fails)

\* Terrain.segments, Terrain.size
segments == 256
size == 2000

\* The segments per side of the PlaneGeometry of a chunk:
\* this.segments / (this.size / this.chunkSize)
renderSegments == segments \div (size \div chunkSize)

\* The vertices per side of the PlaneGeometry, and the rows and columns of
\* the data array of addTerrainPhysics
renderSide == renderSegments + 1
collisionSide == segments + 1

\* The height generateChunk computes for the vertex in row r, column c of the
\* render grid, and the 0 that stands in for a missing one
vertexHeight(r, c) == [kind |-> "computed", r |-> r, c |-> c]
defaultHeight == [kind |-> "default", r |-> 0, c |-> 0]

\* heightData[index] || 0: generateChunk pushes one height per vertex, in
\* vertex order (row by row); an index past the end reads undefined.
heightDataOrZero(index) ==
    IF index < renderSide * renderSide
    THEN vertexHeight(index \div renderSide, index % renderSide)
    ELSE defaultHeight

\* data[i][j] of addTerrainPhysics
collisionSample(i, j) == heightDataOrZero(i * (segments + 1) + j)

\* m.h.sample is history: the collision sample last looked at.
sampleCollision(m, i, j) ==
    [m EXCEPT !.h.sample =
        [probed |-> TRUE, i |-> i, j |-> j, height |-> collisionSample(i, j)]]

\* iceFactor = Math.min(0.8, chunkIndex * 0.1) of Terrain.generateChunk, in
\* tenths
iceFactor10(chunkIndex) == Min(8, chunkIndex)

\* The material of Terrain.generateChunk: ice when Math.random() < iceFactor,
\* for Math.random() = r/10.  m.h.material is history: the last choice made.
chooseMaterial(m, chunkIndex, r) ==
    [m EXCEPT !.h.material =
        [chunkIndex  |-> chunkIndex,
         iceFactor10 |-> iceFactor10(chunkIndex),
         material    |-> IF r < iceFactor10(chunkIndex) THEN "ice" ELSE "snow"]]

\* Terrain.generateNextChunk
generateNextChunkAt(m, newChunkIndex, fail) ==
    pushChunk(generateChunk(m, newChunkIndex, fail), newChunkIndex)

generateNextChunk(m, fail) ==
    generateNextChunkAt(
        m, m.t.currentChunkIndex + Len(m.t.terrainChunks), fail)

\* Terrain.removeOldestChunk: shifts the oldest chunk, then the first entry of
\* terrainBodies, whose body it removes from the world, then advances
\* currentChunkIndex.  With terrainBodies empty, shift() returns undefined and
\* reading oldestBody.body throws a TypeError after the chunk was shifted and
\* before currentChunkIndex is advanced.
removeOldestChunk(m) ==
    LET shifted == [m EXCEPT !.t.terrainChunks = Tail(@)]
    IN  IF m.t.terrainBodies = <<>>
        THEN [shifted EXCEPT !.t.threw = TRUE]
        ELSE [shifted EXCEPT
                 !.t.terrainBodies = Tail(@),
                 !.w = @ \ {Head(m.t.terrainBodies).body},
                 !.t.currentChunkIndex = @ + 1]

\* playerChunkIndex = Math.floor(-playerPosition.z / this.chunkSize)
playerChunkIndexOf(z) == (-z) \div chunkSize

\* Mutant of needsNextChunk: the lookahead margin is one chunk too long.
needsNextChunkEager(t, playerChunkIndex) ==
    playerChunkIndex + 4 >= t.currentChunkIndex + Len(t.terrainChunks)

\* The first test of Terrain.update with a lookahead margin one chunk short.
needsNextChunkLate(t, playerChunkIndex) ==
    playerChunkIndex + 2 >= t.currentChunkIndex + Len(t.terrainChunks)

\* The first test of Terrain.update: the player approaches the leading edge.
needsNextChunk(t, playerChunkIndex) ==
    playerChunkIndex + 3 >= t.currentChunkIndex + Len(t.terrainChunks)

\* The second test of Terrain.update: the trailing chunk is far enough behind.
needsRemoval(t, playerChunkIndex) ==
    /\ Len(t.terrainChunks) > visibleChunks
    /\ playerChunkIndex > t.currentChunkIndex + 2

\* Terrain.update(playerPosition)
TerrainUpdate(m, z, fail) ==
    LET pci == playerChunkIndexOf(z)
        m0  == [m EXCEPT !.t.threw = FALSE]
        m1  == IF needsNextChunk(m0.t, pci) THEN generateNextChunk(m0, fail) ELSE m0
    IN  IF needsRemoval(m1.t, pci) THEN removeOldestChunk(m1) ELSE m1

(***************************************************************************)
(*                               PLAYER                                    *)
(* speed is Player.speed, the double; speed5 is Player.speed to the nearest *)
(* multiple of 0.2 (the acceleration), in units of 0.2, which the damage   *)
(* and the velocity are computed from.  health500 is                       *)
(* Player.health in units of 1/500, so that speed * damageMultiplier * 0.1 *)
(* is an integer.  pos is the body's position; vel350 is its velocity in    *)
(* units of 1/350, so that -speed (in fifths) and an impulse divided by    *)
(* the mass (70) are integers.                                             *)
(***************************************************************************)

\* Player.initialSpeed = 50, Player.maxSpeed = 300, in units of 0.2
initialSpeed5 == 250
maxSpeed5 == 1500

\* Player.health = 100, in units of 1/500
fullHealth500 == 50000

\* Player.mass
mass == 70

\* What applyRagdollEffect draws: the impulse ((random - 0.5) * 20,
\* random * 10, random * 10) and the angular velocity ((random - 0.5) * 5, ...).
Ragdolls ==
    {[impulse |-> <<0, 0, 0>>, spin |-> <<0, 0, 0>>],
     [impulse |-> <<-9, 5, 9>>, spin |-> <<2, -1, 0>>]}

\* body.velocity.set(x, y, z), in units of 1/350
velocityOf(x, y, z) == <<350 * x, 350 * y, 350 * z>>

\* body.applyImpulse(impulse, (0, 0, 0)): velocity += impulse / mass
applyImpulse(vel350, impulse) ==
    [i \in 1..3 |-> vel350[i] + (350 \div mass) * impulse[i]]

\* Player.speed is a JavaScript number, an IEEE-754 double.  A double between
\* 0 and 512 that is a multiple of 2^-55 (every sum of 0.2s is one) is kept
\* as its value in units of 2^-55, in three limbs of 22 bits, the least
\* significant first.
LimbBase == 2^22

\* The limbs of a sum of limbs, carries propagated.
Carried(x) ==
    LET low == x[1] % LimbBase
        mid == x[2] + x[1] \div LimbBase
    IN  <<low, mid % LimbBase, x[3] + mid \div LimbBase>>

\* The number of bits of n
RECURSIVE BitLen(_)
BitLen(n) == IF n = 0 THEN 0 ELSE 1 + BitLen(n \div 2)

BitLenOf(x) ==
    IF x[3] # 0 THEN 44 + BitLen(x[3])
    ELSE IF x[2] # 0 THEN 22 + BitLen(x[2])
    ELSE BitLen(x[1])

\* The double nearest to the exact value x: 53 significant bits, ties to even.
RoundToDouble(x) ==
    LET k == BitLenOf(x) - 53
    IN  IF k <= 0
        THEN x
        ELSE LET q    == 2^k
                 r    == x[1] % q
                 down == [x EXCEPT ![1] = @ - r]
                 up   == Carried([x EXCEPT ![1] = @ - r + q])
                 odd  == (x[1] \div q) % 2 = 1
             IN  IF 2 * r < q THEN down
                 ELSE IF 2 * r > q THEN up
                 ELSE IF odd THEN up ELSE down

\* x + y on doubles
DoubleAdd(x, y) == RoundToDouble(Carried([i \in 1..3 |-> x[i] + y[i]]))

\* x < y on doubles
DoubleLess(x, y) ==
    \/ x[3] < y[3]
    \/ x[3] = y[3] /\ x[2] < y[2]
    \/ x[3] = y[3] /\ x[2] = y[2] /\ x[1] < y[1]

\* Math.min without its clamp: the second argument.
DoubleSecond(x, y) == y

\* Math.min(x, y) on doubles
DoubleMin(x, y) == IF DoubleLess(y, x) THEN y ELSE x

\* The double of the integer n
DoubleOf(n) == <<0, 0, n * 2^11>>

\* Player.acceleration = 0.2: the double nearest to 0.2 is
\* 7205759403792794 * 2^-55.
acceleration == <<1677722, 2516582, 409>>

\* Player.maxSpeed = 300, Player.initialSpeed = 50
maxSpeed == DoubleOf(300)
initialSpeed == DoubleOf(50)

\* Player.lateralSpeed, Player.jumpForce
lateralSpeed == 80
jumpForce == 15

\* The bounds of checkTerrainCollision: |x| > 500 or y < -100
sideLimit == 500
fallLimit == -100

\* new Player(scene, camera, physics): the fields set by the constructor and
\* the body made by createPlayerBody (isGrounded is not set: undefined).
NewPlayer ==
    [speed |-> DoubleOf(0), speed5 |-> 0, health500 |-> fullHealth500, isDead |-> FALSE,
     moveLeft |-> FALSE, moveRight |-> FALSE, isJumping |-> FALSE,
     isGrounded |-> FALSE,
     pos |-> <<0, 5, 0>>, vel350 |-> velocityOf(0, 0, -50),
     angVel |-> <<0, 0, 0>>]

\* Game.onPlayerDied, the listener of 'player-died': shows the game-over
\* screen and writes the final score.  m.h.avoidedAtDeath is history: what
\* obstacles.getObstaclesAvoided() returns while the listener runs.
onPlayerDied(m) ==
    [m EXCEPT !.d.gameOverShown = TRUE,
              !.d.finalScoreText = m.g.score,
              !.h.avoidedAtDeath = m.o.obstaclesAvoided]

\* document.dispatchEvent(new CustomEvent('player-died')): the event is
\* counted and its listener runs synchronously.
dispatchPlayerDied(m) ==
    onPlayerDied([m EXCEPT !.d.playerDiedEvents = @ + 1])

\* The body of Player.die once the isDead test has passed: the velocity is
\* zeroed, applyRagdollEffect applies its impulse and sets the angular
\* velocity, the event is sent.
dieNow(m, rag) ==
    dispatchPlayerDied(
        [m EXCEPT !.p.isDead = TRUE,
                  !.p.vel350 = applyImpulse(velocityOf(0, 0, 0), rag.impulse),
                  !.p.angVel = rag.spin])

\* m.h.dieCalls is history: the calls of Player.die since the last reset.
dieCalled(m) == [m EXCEPT !.h.dieCalls = @ + 1]

\* Player.die without its isDead test.
dieUnguarded(m, rag) == dieNow(dieCalled(m), rag)

\* Player.die
die(m, rag) == IF ~m.p.isDead THEN dieNow(dieCalled(m), rag) ELSE dieCalled(m)

\* Player.takeDamage(amount)
takeDamage(m, amount500, rag) ==
    LET hurt == [m EXCEPT !.p.health500 = @ - amount500]
    IN  IF hurt.p.health500 <= 0 THEN die(hurt, rag) ELSE hurt

\* Player.applyControls(deltaTime): the impulse (-+lateralSpeed * deltaTime,
\* 0, 0) when a direction is held, left before right; dt100 is deltaTime in
\* hundredths of a second.
lateralForce100Of(p, dt100) ==
    IF p.moveLeft THEN -(lateralSpeed * dt100)
    ELSE IF p.moveRight THEN lateralSpeed * dt100
    ELSE 0

applyControls(m, dt100) ==
    LET lateralForce100 == lateralForce100Of(m.p, dt100)
    IN  IF lateralForce100 # 0
        THEN [m EXCEPT !.p.vel350[1] =
                           @ + (350 * lateralForce100) \div (100 * mass)]
        ELSE m

\* Player.updatePhysics: body.velocity.z = -speed; grounded is the outcome of
\* the ray cast (hasHit && distance < 0.6).
updatePhysics(m, grounded) ==
    [m EXCEPT !.p.vel350[3] = -(70 * m.p.speed5),
              !.p.isGrounded = grounded,
              !.p.isJumping = IF grounded /\ @ THEN FALSE ELSE @]

\* m.h.jumpCalls is history: the calls of Player.jump since the last reset.
jumpCalled(m) == [m EXCEPT !.h.jumpCalls = @ + 1]

\* The body of Player.jump once its test has passed
jumpNow(m) ==
    [m EXCEPT !.p.vel350 = applyImpulse(@, <<0, jumpForce, 0>>),
              !.p.isJumping = TRUE]

\* Player.jump without its isGrounded test.
jumpUngrounded(m) ==
    IF ~m.p.isJumping THEN jumpNow(jumpCalled(m)) ELSE jumpCalled(m)

\* Player.jump
jump(m) ==
    IF ~m.p.isJumping /\ m.p.isGrounded
    THEN jumpNow(jumpCalled(m))
    ELSE jumpCalled(m)

\* The keydown listener of Player.setupControls
keydown(m, code) ==
    CASE code = "KeyA"  -> [m EXCEPT !.p.moveLeft = TRUE]
      [] code = "KeyD"  -> [m EXCEPT !.p.moveRight = TRUE]
      [] code = "Space" -> IF ~m.p.isJumping THEN jump(m) ELSE m
      [] OTHER          -> m

\* The keyup listener of Player.setupControls
keyup(m, code) ==
    CASE code = "KeyA"  -> [m EXCEPT !.p.moveLeft = FALSE]
      [] code = "KeyD"  -> [m EXCEPT !.p.moveRight = FALSE]
      [] OTHER          -> m

\* Player.checkTerrainCollision without its test of y.
checkSidesOnly(m, rag) ==
    IF Abs(m.p.pos[1]) > sideLimit THEN die(m, rag) ELSE m

\* Player.checkTerrainCollision
checkTerrainCollision(m, rag) ==
    IF Abs(m.p.pos[1]) > sideLimit \/ m.p.pos[2] < fallLimit
    THEN die(m, rag)
    ELSE m

\* Player.update(deltaTime): speed grows by acceleration (one unit of 0.2) up
\* to maxSpeed.  m.h.updatesSinceReset is history: the updates of the living
\* player since the last reset.
PlayerUpdate(m, dt100, grounded, rag) ==
    IF m.p.isDead
    THEN m
    ELSE LET faster ==
                 [m EXCEPT
                     !.p.speed = DoubleMin(maxSpeed, DoubleAdd(@, acceleration)),
                     !.p.speed5 = Min(maxSpeed5, @ + 1),
                     !.h.updatesSinceReset = @ + 1]
         IN  checkTerrainCollision(
                 updatePhysics(applyControls(faster, dt100), grounded), rag)

\* Player.reset.  m.h.eventsAtReset is history: the number of player-died
\* events sent before this reset; m.h.hasReset: a reset has happened.
PlayerReset(m) ==
    [m EXCEPT !.p.speed = initialSpeed,
              !.p.speed5 = initialSpeed5,
              !.p.health500 = fullHealth500,
              !.p.isDead = FALSE,
              !.p.pos = <<0, 5, 0>>,
              !.p.vel350 = velocityOf(0, 0, -50),
              !.p.angVel = <<0, 0, 0>>,
              !.p.moveLeft = FALSE,
              !.p.moveRight = FALSE,
              !.p.isJumping = FALSE,
              !.h.eventsAtReset = m.d.playerDiedEvents,
              !.h.dieCalls = 0,
              !.h.hasReset = TRUE,
              !.h.jumpCalls = 0,
              !.h.updatesSinceReset = 0]

(***************************************************************************)
(*                          OBSTACLE MANAGER                               *)
(***************************************************************************)

\* ObstacleManager.obstacleTypesData: collisionRadius and damageMultiplier in
\* tenths.  JavaScript indexes it from 0, the sequence from 1.
obstacleTypesData ==
    << [type |-> "tree",     collisionRadius10 |-> 12, damageMultiplier10 |-> 10],
       [type |-> "rock",     collisionRadius10 |-> 18, damageMultiplier10 |-> 12],
       [type |-> "iceSpike", collisionRadius10 |-> 10, damageMultiplier10 |-> 15],
       [type |-> "logPile",  collisionRadius10 |-> 20, damageMultiplier10 |-> 8] >>

minDistanceBetweenObstacles == 20
removalDistance == 50
passedMargin == 5
firstObstacleZ == -100
levelLength == 500

\* obstacle.body of an obstacle that has no body (null)
NoBody == <<"none">>

\* new ObstacleManager(scene, physics).  created numbers the obstacle
\* instances made by the createFunc callbacks, bodiesMade the bodies made by
\* addObstaclePhysics; threw records that the last update call ended in an
\* exception.
NewObstacleManager ==
    [activeObstacles |-> <<>>, obstaclePool |-> <<>>,
     obstacleSpawnFrequency100 |-> 20, maxObstaclesOnScreen |-> 20,
     obstaclesAvoided |-> 0, nextObstacleZ |-> firstObstacleZ,
     obstacleSpread |-> 30, difficultyLevel |-> 1,
     created |-> 0, bodiesMade |-> 0, threw |-> FALSE]

\* The difficulty level without Math.abs.
levelSigned(z) == 1 + ((-z) \div levelLength)

\* difficultyLevel = 1 + Math.floor(Math.abs(playerPosition.z) / 500)
levelOf(z) == 1 + (Abs(z) \div levelLength)

spawnFrequency100Of(level) == 20 + level * 5

maxObstaclesOf(level) == 20 + level * 2

obstacleSpreadOf(level) == 30 + level * 5

\* ObstacleManager.updateDifficulty.  m.h.maxLevel is history: the highest
\* level computed since the last reset.
updateDifficulty(m, pos) ==
    LET level == levelOf(pos[3])
    IN  [m EXCEPT !.o.difficultyLevel = level,
                  !.o.obstacleSpawnFrequency100 = spawnFrequency100Of(level),
                  !.o.maxObstaclesOnScreen = maxObstaclesOf(level),
                  !.o.obstacleSpread = obstacleSpreadOf(level),
                  !.h.maxLevel = IF level > @ THEN level ELSE @]

\* ObstacleManager.recycleObstacle without physics.world.removeBody.
recycleKeepingBody(m, obstacle) ==
    [m EXCEPT !.o.obstaclePool = Append(@, [obstacle EXCEPT !.body = NoBody])]

\* ObstacleManager.recycleObstacle: the body leaves the world, obstacle.body
\* becomes null, the obstacle is pushed onto the pool.
recycleObstacle(m, obstacle) ==
    [m EXCEPT !.w = IF obstacle.body # NoBody THEN @ \ {obstacle.body} ELSE @,
              !.o.obstaclePool = Append(@, [obstacle EXCEPT !.body = NoBody])]

\* The filter predicate of removeDistantObstacles
isDistant(obstacle, pos) == obstacle.z > pos[3] + removalDistance

\* ObstacleManager.removeDistantObstacles: the filter callback runs over the
\* active obstacles in order, recycling each distant one; the obstacles kept
\* become the new activeObstacles.
RECURSIVE recycleDistantFrom(_, _, _, _)
recycleDistantFrom(m, old, i, pos) ==
    IF i > Len(old)
    THEN m
    ELSE recycleDistantFrom(
             IF isDistant(old[i], pos) THEN recycleObstacle(m, old[i]) ELSE m,
             old, i + 1, pos)

removeDistantObstacles(m, pos) ==
    LET old == m.o.activeObstacles
    IN  [recycleDistantFrom(m, old, 1, pos) EXCEPT
            !.o.activeObstacles = SelectSeq(old, LAMBDA ob : ~isDistant(ob, pos))]

\* obstaclePool.findIndex(obj => obj.type === type): 0 when there is none
RECURSIVE poolIndexFrom(_, _, _)
poolIndexFrom(pool, type, i) ==
    IF i > Len(pool) THEN 0
    ELSE IF pool[i].type = type THEN i
    ELSE poolIndexFrom(pool, type, i + 1)

\* Mutant of spliceOut: the obstacle found is not removed from the pool.
spliceOutNothing(pool, index) == pool

\* obstaclePool.splice(index, 1)
spliceOut(pool, index) ==
    SubSeq(pool, 1, index - 1) \o SubSeq(pool, index + 1, Len(pool))

\* ObstacleManager.addObstaclePhysics on a fresh body
addObstaclePhysics(m, obstacle) ==
    LET body == <<"obstacle", m.o.bodiesMade>>
    IN  [m |-> [m EXCEPT !.w = @ \cup {body}, !.o.bodiesMade = @ + 1],
         obstacle |-> [obstacle EXCEPT !.body = body]]

\* ObstacleManager.createObstacle(typeData, x, z) with getObstacleFromPool:
\* the obstacle is taken from the pool (the first of the type) or made by the
\* type's createFunc, positioned and flagged, and given a body.  The result is
\* [m, obstacle, threw]: when the construction of the body throws (fail), the
\* obstacle has left the pool and the exception leaves createObstacle.
\* m.h.spawns, m.h.counted, m.h.countedThisSpawn and m.h.hitThisSpawn are
\* history: the obstacle's activation starts here.
createObstacle(m, typeData, x, z, fail) ==
    LET index    == poolIndexFrom(m.o.obstaclePool, typeData.type, 1)
        pooled   == index # 0
        instance == IF pooled
                    THEN m.o.obstaclePool[index]
                    ELSE [id |-> m.o.created + 1, body |-> NoBody]
        m1       == IF pooled
                    THEN [m EXCEPT !.o.obstaclePool = spliceOut(@, index)]
                    ELSE [m EXCEPT !.o.created = @ + 1]
        placed   == [id |-> instance.id, body |-> instance.body,
                     x |-> x, z |-> z, type |-> typeData.type,
                     collisionRadius10 |-> typeData.collisionRadius10,
                     damageMultiplier10 |-> typeData.damageMultiplier10,
                     isAvoidedCounted |-> FALSE]
        m2       == [m1 EXCEPT
                        !.h.spawns = @ + 1,
                        !.h.counted = IF pooled THEN @ ELSE Append(@, 0),
                        !.h.countedThisSpawn =
                            IF pooled THEN [@ EXCEPT ![instance.id] = 0]
                            ELSE Append(@, 0),
                        !.h.hitThisSpawn = @ \ {instance.id}]
    IN  IF fail
        THEN [m |-> m2, obstacle |-> placed, threw |-> TRUE]
        ELSE LET r == addObstaclePhysics(m2, placed)
             IN  [m |-> r.m, obstacle |-> r.obstacle, threw |-> FALSE]

\* Math.random() > this.obstacleSpawnFrequency, for Math.random() = r/10
spawnTrialFails(o, r) == r * 10 > o.obstacleSpawnFrequency100

\* Math.abs(zDistance) < this.minDistanceBetweenObstacles
tooClose(o, pos) ==
    Abs(pos[3] - o.nextObstacleZ) < minDistanceBetweenObstacles

\* xPosition = (Math.random() * 2 - 1) * this.obstacleSpread
xPositionOf(o, r) == ((2 * r - 10) * o.obstacleSpread) \div 10

\* The 0-based typeIndex: Math.floor(Math.random() * 4), moved up by one,
\* clamped to the last type, when Math.random() < 0.2 * difficultyLevel.
typeIndexOf(o, rType, rEsc) ==
    LET typeIndex == (rType * Len(obstacleTypesData)) \div 10
    IN  IF rEsc < 2 * o.difficultyLevel
        THEN Min(typeIndex + 1, Len(obstacleTypesData) - 1)
        ELSE typeIndex

\* The type choice of generateObstacle.  m.h.typeChoice is history: the two
\* draws of the last choice, the index first chosen and the index used.
chooseType(m, rType, rEsc) ==
    [m EXCEPT !.h.typeChoice =
        [chosen  |-> TRUE, rType |-> rType, rEsc |-> rEsc,
         initial |-> (rType * Len(obstacleTypesData)) \div 10,
         final   |-> typeIndexOf(m.o, rType, rEsc)]]

\* minDistanceBetweenObstacles * (1 + Math.random() * 0.5)
spacingOf(r) == minDistanceBetweenObstacles + r

\* ObstacleManager.generateObstacle.  rnd holds the five Math.random() draws
\* (trial, x, type, esc, gap), each r standing for r/10.  m.h.spawnedBehind
\* is history: the ids of the obstacles activated at or behind the player.
generateObstacle(m, pos, rnd, fail) ==
    IF spawnTrialFails(m.o, rnd.trial) \/ tooClose(m.o, pos)
    THEN m
    ELSE LET typeData == obstacleTypesData[typeIndexOf(m.o, rnd.type, rnd.esc) + 1]
             made     == createObstacle(m, typeData, xPositionOf(m.o, rnd.x),
                                        m.o.nextObstacleZ, fail)
         IN  IF made.threw
             THEN [made.m EXCEPT !.o.threw = TRUE]
             ELSE [made.m EXCEPT
                      !.o.activeObstacles = Append(@, made.obstacle),
                      !.o.nextObstacleZ = @ - spacingOf(rnd.gap),
                      !.h.spawnedBehind =
                          IF made.obstacle.z < pos[3]
                          THEN @ ELSE @ \cup {made.obstacle.id}]

\* Mutant of isPassedUncounted: the isAvoidedCounted flag is not tested.
isPassedAnyFlag(obstacle, pos) == obstacle.z > pos[3] + passedMargin

\* The test of checkObstaclesPassed
isPassedUncounted(obstacle, pos) ==
    ~obstacle.isAvoidedCounted /\ obstacle.z > pos[3] + passedMargin

\* The body of the forEach callback of checkObstaclesPassed for the i-th
\* active obstacle: the flag, the counter and the score element.  m.h.counted,
\* m.h.countedThisSpawn and m.h.hitThenCounted are history.
countPassed(m, i) ==
    LET id == m.o.activeObstacles[i].id
    IN  [m EXCEPT !.o.activeObstacles[i].isAvoidedCounted = TRUE,
                  !.o.obstaclesAvoided = @ + 1,
                  !.d.scoreText = m.o.obstaclesAvoided + 1,
                  !.h.counted[id] = @ + 1,
                  !.h.countedThisSpawn[id] = @ + 1,
                  !.h.hitThenCounted =
                      IF id \in m.h.hitThisSpawn THEN @ \cup {id} ELSE @]

\* ObstacleManager.checkObstaclesPassed
RECURSIVE checkObstaclesPassedFrom(_, _, _)
checkObstaclesPassedFrom(m, i, pos) ==
    IF i > Len(m.o.activeObstacles)
    THEN m
    ELSE checkObstaclesPassedFrom(
             IF isPassedUncounted(m.o.activeObstacles[i], pos)
             THEN countPassed(m, i) ELSE m,
             i + 1, pos)

\* Mutant of checkObstaclesPassed: the counter is set to the number of
\* flagged active obstacles instead of being incremented.
checkObstaclesPassedRecount(m, pos) ==
    LET done == checkObstaclesPassedFrom(m, 1, pos)
    IN  [done EXCEPT !.o.obstaclesAvoided =
            Len(SelectSeq(done.o.activeObstacles,
                          LAMBDA ob : ob.isAvoidedCounted))]

checkObstaclesPassed(m, pos) == checkObstaclesPassedFrom(m, 1, pos)

\* The test with the cap itself admitted.
belowCapInclusive(o) == Len(o.activeObstacles) <= o.maxObstaclesOnScreen

\* this.activeObstacles.length < this.maxObstaclesOnScreen
belowCap(o) == Len(o.activeObstacles) < o.maxObstaclesOnScreen

\* ObstacleManager.update(playerPosition, deltaTime)
ObstaclesUpdate(m, pos, rnd, fail) ==
    LET m0 == [m EXCEPT !.o.threw = FALSE]
        m1 == removeDistantObstacles(updateDifficulty(m0, pos), pos)
        m2 == IF belowCap(m1.o) THEN generateObstacle(m1, pos, rnd, fail) ELSE m1
    IN  IF m2.o.threw THEN m2 ELSE checkObstaclesPassed(m2, pos)

\* ObstacleManager.reset: every active obstacle is recycled, in order
RECURSIVE recycleAllFrom(_, _, _)
recycleAllFrom(m, old, i) ==
    IF i > Len(old) THEN m
    ELSE recycleAllFrom(recycleObstacle(m, old[i]), old, i + 1)

ObstaclesReset(m) ==
    [recycleAllFrom(m, m.o.activeObstacles, 1) EXCEPT
        !.o.activeObstacles = <<>>,
        !.o.nextObstacleZ = firstObstacleZ,
        !.o.obstaclesAvoided = 0,
        !.o.difficultyLevel = 1,
        !.d.scoreText = 0,
        !.h.maxLevel = 1]

\* ObstacleManager.getObstaclesAvoided
getObstaclesAvoided(o) == o.obstaclesAvoided

(***************************************************************************)
(*                     COLLISIONS (Player and Game)                        *)
(***************************************************************************)

playerRadius10 == 5

\* playerPos.distanceTo(obstaclePos) < obstacle.collisionRadius + 0.5, squared
\* and in hundredths; the obstacle's body sits at (x, 0, z).
withinCollisionDistance(p, obstacle) ==
    LET dx == p.pos[1] - obstacle.x
        dy == p.pos[2] - 0
        dz == p.pos[3] - obstacle.z
        cd == obstacle.collisionRadius10 + playerRadius10
    IN  100 * (dx * dx + dy * dy + dz * dz) < cd * cd

\* The damage without the obstacle's multiplier.
damage500Flat(p, obstacle) == p.speed5 * 10

\* damage = this.speed * obstacle.damageMultiplier * 0.1, in units of 1/500
damage500Of(p, obstacle) == p.speed5 * obstacle.damageMultiplier10

\* Player.checkObstacleCollision(obstacle): [m, hit].  m.h.hitThisSpawn is
\* history: the obstacles that registered a collision since their spawn.
checkObstacleCollision(m, obstacle, rag) ==
    IF withinCollisionDistance(m.p, obstacle)
    THEN [m |-> [takeDamage(m, damage500Of(m.p, obstacle), rag) EXCEPT
                    !.h.hitThisSpawn = @ \cup {obstacle.id}],
          hit |-> TRUE]
    ELSE [m |-> m, hit |-> FALSE]

\* Game.checkObstacleCollisions: the active obstacles in order, stopping at
\* the first collision.
RECURSIVE checkObstacleCollisionsFrom(_, _, _)
checkObstacleCollisionsFrom(m, i, rag) ==
    IF i > Len(m.o.activeObstacles)
    THEN m
    ELSE LET r == checkObstacleCollision(m, m.o.activeObstacles[i], rag)
         IN  IF r.hit THEN r.m ELSE checkObstacleCollisionsFrom(r.m, i + 1, rag)

checkObstacleCollisions(m, rag) == checkObstacleCollisionsFrom(m, 1, rag)

\* The obstacle step of Game.updateGame: obstacles.update on the player's
\* position and, when update returned and the player is not dead, the
\* collision check.
updateObstaclesStep(m, rnd, fail, rag) ==
    LET m1 == ObstaclesUpdate(m, m.p.pos, rnd, fail)
    IN  IF m1.o.threw \/ m1.p.isDead
        THEN m1
        ELSE checkObstacleCollisions(m1, rag)

(***************************************************************************)
(*                                 NOISE                                   *)
(* generateNoise sums octaves of perlinNoise.noise.  The sample of octave  *)
(* i, perlinNoise.noise(x * frequency / scale, y * frequency / scale, 0),  *)
(* is samples[i], a value in [-1, 1] given in whole units; persistence is  *)
(* given in halves, amplitudes in units of 1 / amplitudeUnit.              *)
(***************************************************************************)

\* The largest number of octaves of a call.
MaxOctaves == 3

\* let amplitude = 1.0, in units in which MaxOctaves halvings are exact
amplitudeUnit == 2^MaxOctaves

\* The for loop of generateNoise from octave i on: acc holds total and
\* maxValue.
RECURSIVE octaveLoop(_, _, _, _, _, _)
octaveLoop(i, octaves, samples, persistence2, amplitude, acc) ==
    IF i < octaves
    THEN octaveLoop(i + 1, octaves, samples, persistence2,
                    (amplitude * persistence2) \div 2,
                    [total    |-> acc.total + samples[i + 1] * amplitude,
                     maxValue |-> acc.maxValue + amplitude])
    ELSE acc

\* total / maxValue of JavaScript numbers: 0 / 0 is NaN, n / 0 an infinity,
\* otherwise the quotient, kept as the pair.
quotient(acc) ==
    [thrown   |-> "none",
     isNaN    |-> acc.maxValue = 0 /\ acc.total = 0,
     isFinite |-> acc.maxValue # 0,
     total    |-> acc.total,
     maxValue |-> acc.maxValue]

\* generateNoise(x, y, octaves, persistence, lacunarity, scale): what the
\* call returns or throws.
generateNoise(samples, octaves, persistence2) ==
    quotient(octaveLoop(0, octaves, samples, persistence2, amplitudeUnit,
                        [total |-> 0, maxValue |-> 0]))

\* m.h.noise is history: the last call of generateNoise and its outcome.
NoNoise ==
    [called |-> FALSE, octaves |-> 0, persistence2 |-> 0, samples |-> <<>>,
     result |-> quotient([total |-> 0, maxValue |-> 0])]

generateNoiseCalled(m, samples, octaves, persistence2) ==
    [m EXCEPT !.h.noise =
        [called |-> TRUE, octaves |-> octaves,
         persistence2 |-> persistence2, samples |-> samples,
         result |-> generateNoise(samples, octaves, persistence2)]]

(***************************************************************************)
(*                       PROGRAM STATE AND ACTIONS                         *)
(***************************************************************************)

\* The program state the operators work on, read from the variables.
St == [t |-> terrain, o |-> om, p |-> player, g |-> game, w |-> world,
       d |-> dom, h |-> hist]

\* The variables take the program state m.
Becomes(m) ==
    /\ terrain' = m.t
    /\ om' = m.o
    /\ player' = m.p
    /\ game' = m.g
    /\ world' = m.w
    /\ dom' = m.d
    /\ hist' = m.h

\* Game.terrain before a Terrain is constructed (null)
NoTerrain ==
    [gen |-> 0, terrainChunks |-> <<>>, currentChunkIndex |-> 0,
     terrainBodies |-> <<>>, made |-> 0, threw |-> FALSE]

\* new Game(): the fields set by the constructor; queued and inFrame are the
\* animate callbacks held by the animation-frame scheduler, for the next
\* display refresh and for the one being served.
NewGame ==
    [isInitialized |-> FALSE, isRunning |-> FALSE, isPaused |-> FALSE,
     score |-> 0, queued |-> 0, inFrame |-> 0]

\* The document as loaded: the start screen shown, the game-over screen
\* hidden, the score elements at 0; playerDiedEvents counts the events sent,
\* alerts the alert() calls.
NewDom ==
    [scoreText |-> 0, finalScoreText |-> 0, gameOverShown |-> FALSE,
     startScreenShown |-> TRUE, playerDiedEvents |-> 0, alerts |-> 0]

\* The history variables at the start of a run.
NewHist ==
    [spawns |-> 0, counted |-> <<>>, countedThisSpawn |-> <<>>,
     hitThisSpawn |-> {}, hitThenCounted |-> {}, spawnedBehind |-> {},
     maxLevel |-> 1, eventsAtReset |-> 0, dieCalls |-> 0, jumpCalls |-> 0,
     hasReset |-> FALSE,
     updatesSinceReset |-> 0, ticks |-> 0,
     updatesInFrame |-> 0, noise |-> NoNoise,
     material |-> [chunkIndex |-> 0, iceFactor10 |-> 0, material |-> "snow"],
     typeChoice |-> [chosen |-> FALSE, rType |-> 0, rEsc |-> 0,
                     initial |-> 0, final |-> 0],
     avoidedAtDeath |-> 0,
     sample |-> [probed |-> FALSE, i |-> 0, j |-> 0,
                 height |-> vertexHeight(0, 0)]]

\* The body createPlayerBody registers with the world
playerBody == <<"player">>

\* The program state once the physics, the player and the obstacle manager
\* are constructed; the Terrain is constructed by the specifications that
\* use it.
Constructed ==
    [t |-> NoTerrain, o |-> NewObstacleManager, p |-> NewPlayer,
     g |-> NewGame, w |-> {playerBody}, d |-> NewDom, h |-> NewHist]

(***************************************************************************)
(* SpecTerrain: a Terrain instance under update calls with any player      *)
(* position of TerrainZs and any outcome of the body constructions.        *)
(***************************************************************************)
InitTerrain ==
    \E fails \in SUBSET (0..(visibleChunks - 1)) :
        LET m == NewTerrain(Constructed, 1, fails)
        IN  /\ terrain = m.t
            /\ om = m.o
            /\ player = m.p
            /\ game = m.g
            /\ world = m.w
            /\ dom = m.d
            /\ hist = m.h

\* terrain.update(playerPosition)
TerrainTick ==
    \E z \in TerrainZs, fail \in BOOLEAN :
        Becomes(TerrainUpdate(St, z, fail))

NextTerrain == TerrainTick

SpecTerrain == InitTerrain /\ [][NextTerrain]_vars

\* C1 (as amended): after every Terrain.update the number of active chunks is
\* visibleChunks or visibleChunks + 1 (5 or 6).
C1_ChunkCount ==
    Len(terrain.terrainChunks) \in {visibleChunks, visibleChunks + 1}

\* C1 witness: the terrain has streamed and evicted chunks and holds 6.
C1_Witness ==
    /\ terrain.currentChunkIndex >= 2
    /\ Len(terrain.terrainChunks) = visibleChunks + 1

\* C1 as stated: the number of active chunks is exactly visibleChunks.
C1_ExactlyVisibleChunks == Len(terrain.terrainChunks) = visibleChunks

\* C2 as stated: the active chunks are exactly the indices currentChunkIndex,
\* ..., currentChunkIndex + chunkCount - 1, in ascending order.
C2_ChunksContiguous ==
    terrain.terrainChunks =
        [i \in 1..Len(terrain.terrainChunks) |-> terrain.currentChunkIndex + i - 1]

\* The obstacle bodies registered in the physics world
ObstacleBodies == {b \in world : b[1] = "obstacle"}

\* C25: each active obstacle has a body of its own registered in the world,
\* each pooled obstacle has none, and the world holds as many obstacle bodies
\* as there are active obstacles.
C25_OneBodyPerActiveObstacle ==
    /\ \A i \in 1..Len(om.activeObstacles) :
           /\ om.activeObstacles[i].body \in ObstacleBodies
           /\ \A j \in 1..Len(om.activeObstacles) :
                  om.activeObstacles[i].body = om.activeObstacles[j].body
                      => i = j
    /\ \A i \in 1..Len(om.obstaclePool) : om.obstaclePool[i].body = NoBody
    /\ Cardinality(ObstacleBodies) = Len(om.activeObstacles)

\* C25 witness: an obstacle taken back from the pool is active with the
\* second body made, the first one having left the world.
C25_Witness ==
    /\ hist.spawns > om.created
    /\ Len(om.activeObstacles) = 1
    /\ om.activeObstacles[1].body = <<"obstacle", 1>>

\* C23 as stated: an update that evicts the oldest chunk removes from the
\* world the body built for that chunk index and no other body.
C23_EvictedBodyReleased ==
    [][(/\ terrain.terrainChunks # <<>> /\ terrain'.terrainChunks # <<>>
        /\ Head(terrain'.terrainChunks) # Head(terrain.terrainChunks)) =>
           \A e \in Range(terrain.terrainBodies) :
               (e.body \in world /\ e.body \notin world') <=>
                   (e.body \in world
                        /\ e.chunkIndex = Head(terrain.terrainChunks))]_vars

\* C24 as stated: no Terrain.update call ends in an exception.
C24_TerrainUpdateNeverThrows == ~terrain.threw

(***************************************************************************)
(* The obstacle step of Game.updateGame (obstacles.update and the          *)
(* collision check) and the resets of Game.resetGame, as actions over      *)
(* given sets of inputs.                                                   *)
(***************************************************************************)

\* physics.update leaves the player body at pos; then the obstacle step of
\* Game.updateGame runs on it.
ObstacleTickWith(pos, rnd, fail, rag) ==
    Becomes(updateObstaclesStep([St EXCEPT !.p.pos = pos], rnd, fail, rag))

\* A tick with the player at one of positions and the Math.random() draws of
\* generateObstacle one of draws (each r for r/10); fails are the outcomes of
\* the body construction.
ObstacleTickOver(positions, draws, fails) ==
    \E pos \in positions, rnd \in draws, fail \in fails, rag \in Ragdolls :
        ObstacleTickWith(pos, rnd, fail, rag)

\* The draws of a tick whose spawn trial fails (0.9 > obstacleSpawnFrequency)
NoSpawnDraws == [trial : {9}, x : {0}, type : {0}, esc : {0}, gap : {0}]

\* The player.reset() and obstacles.reset() of Game.resetGame
ResetPlayerAndObstacles == Becomes(ObstaclesReset(PlayerReset(St)))

\* The program state after the constructors
InitConstructed ==
    /\ terrain = Constructed.t
    /\ om = Constructed.o
    /\ player = Constructed.p
    /\ game = Constructed.g
    /\ world = Constructed.w
    /\ dom = Constructed.d
    /\ hist = Constructed.h

(***************************************************************************)
(* SpecObstacles: the ObstacleManager under update and reset calls, for    *)
(* a player passing above the obstacles (no collision), any outcome of the *)
(* random draws and of the body constructions.                             *)
(***************************************************************************)

\* The number of createObstacle calls a run of SpecObstacles makes.
MaxSpawns == 2

\* Player positions above the obstacles' line: at the start, level with the
\* first obstacle, just past it, and far past it.
ObstaclePositions == {<<0, 5, z>> : z \in {0, -100, -106, -160}}

\* The draws of a tick whose spawn trial passes (0 <= obstacleSpawnFrequency)
SpawnDraws ==
    [trial : {0}, x : {5}, type : {0, 9}, esc : {0, 9}, gap : {0, 9}]

\* A tick whose spawn trial passes
ObstacleTickSpawning ==
    /\ hist.spawns < MaxSpawns
    /\ ObstacleTickOver(ObstaclePositions, SpawnDraws, BOOLEAN)

\* A tick whose spawn trial fails
ObstacleTickIdle == ObstacleTickOver(ObstaclePositions, NoSpawnDraws, {FALSE})

NextObstacles ==
    ObstacleTickSpawning \/ ObstacleTickIdle \/ ResetPlayerAndObstacles

SpecObstacles == InitConstructed /\ [][NextObstacles]_vars

\* The instances the createFunc callbacks have made
Instances == 1..om.created

\* C3 (as amended): each obstacle instance contributes at most one increment
\* to obstaclesAvoided per activation, that is between a createObstacle that
\* positions it and the next one that does.
C3_OncePerSpawn ==
    \A id \in Instances : hist.countedThisSpawn[id] <= 1

\* C3 witness: an instance was counted, recycled, spawned again and counted
\* again.
C3_Witness ==
    \E id \in Instances :
        hist.counted[id] = 2 /\ hist.countedThisSpawn[id] = 1

\* C3 as stated: each obstacle instance contributes at most one increment to
\* obstaclesAvoided, recycling included.
C3_OncePerInstance ==
    \A id \in Instances : hist.counted[id] <= 1

\* A step of Game.resetGame
IsReset == ResetPlayerAndObstacles

\* C4: while the player is alive and no reset occurs, getObstaclesAvoided()
\* never decreases from one tick to the next.
C4_AvoidedMonotonic ==
    [][(~player.isDead /\ ~IsReset)
          => getObstaclesAvoided(om') >= getObstaclesAvoided(om)]_vars

\* C4 witness: the counter has been incremented twice with the player alive.
C4_Witness == ~player.isDead /\ getObstaclesAvoided(om) >= 2

\* The ids of a sequence of obstacles
IdsOf(obstacles) == {obstacles[i].id : i \in 1..Len(obstacles)}

\* C7: no obstacle instance is in activeObstacles and in obstaclePool at the
\* same time, and no instance appears twice in either collection.
C7_PoolDisjoint ==
    /\ IdsOf(om.activeObstacles) \cap IdsOf(om.obstaclePool) = {}
    /\ Cardinality(IdsOf(om.activeObstacles)) = Len(om.activeObstacles)
    /\ Cardinality(IdsOf(om.obstaclePool)) = Len(om.obstaclePool)

\* C7 witness: an obstacle has been recycled into the pool while another one
\* is active.
C7_Witness == om.obstaclePool # <<>> /\ om.activeObstacles # <<>>

\* C8 as stated: every obstacle generateObstacle activates has its z strictly
\* below the player's z at that moment.
C8_SpawnedAhead == hist.spawnedBehind = {}

(***************************************************************************)
(* SpecCollisions: the obstacle step with the player on the obstacles'     *)
(* line, so that obstacles are hit, and the resets of Game.resetGame.      *)
(***************************************************************************)

\* The number of player deaths after which a run makes no further reset.
MaxDeaths == 2

\* Player positions on the obstacles' line (x = 0, y = 0): at the start, at
\* the first obstacle, and just past it.
CollisionPositions == {<<0, 0, z>> : z \in {0, -100, -106}}

\* The draws of a spawning tick: the obstacle is placed at x = 0.
CollisionDraws ==
    [trial : {0}, x : {5}, type : {0, 5}, esc : {9}, gap : {0}]

CollisionTickSpawning ==
    /\ hist.spawns < MaxSpawns
    /\ ObstacleTickOver(CollisionPositions, CollisionDraws, {FALSE})

CollisionTickIdle ==
    ObstacleTickOver(CollisionPositions, NoSpawnDraws, {FALSE})

RestartAfterDeath ==
    /\ dom.playerDiedEvents < MaxDeaths
    /\ ResetPlayerAndObstacles

NextCollisions ==
    CollisionTickSpawning \/ CollisionTickIdle \/ RestartAfterDeath

SpecCollisions == InitConstructed /\ [][NextCollisions]_vars

\* C5 as stated: an obstacle for which checkObstacleCollision returned true is
\* never later counted by checkObstaclesPassed.
C5_HitNeverCounted == hist.hitThenCounted = {}

\* C11 as stated: health stays within [0, 100] (in units of 1/500).
C11_HealthInRange ==
    player.health500 >= 0 /\ player.health500 <= fullHealth500

(***************************************************************************)
(* SpecCap: the obstacle step with every spawn trial of a spawning tick    *)
(* succeeding, the player on either side of the first level boundary.      *)
(***************************************************************************)

\* The number of spawns after which a run spawns no further obstacle.
MaxCapSpawns == 44

\* The number of spawns after which a run makes no further reset.
MaxSpawnsBeforeRestart == 2

\* Player positions clear of the obstacles (y = 5): on either side of the
\* boundary between level 1 and level 2, and one spacing before it.
CapPositions ==
    {<<0, 5, z>> : z \in {20 - levelLength, 1 - levelLength, -levelLength}}

\* The draws of a spawning tick: trees at x = 0, one spacing apart.
CapDraws == [trial : {0}, x : {5}, type : {0}, esc : {9}, gap : {0}]

CapTickSpawning ==
    /\ hist.spawns < MaxCapSpawns
    /\ ObstacleTickOver(CapPositions, CapDraws, {FALSE})

CapTickIdle == ObstacleTickOver(CapPositions, NoSpawnDraws, {FALSE})

CapRestart ==
    /\ hist.spawns <= MaxSpawnsBeforeRestart
    /\ ResetPlayerAndObstacles

NextCap == CapTickSpawning \/ CapTickIdle \/ CapRestart

SpecCap == InitConstructed /\ [][NextCap]_vars

\* C6 as stated: after every update the number of active obstacles is at most
\* the cap 20 + 2 * level of the level computed for that tick.
C6_ActiveWithinCap == Len(om.activeObstacles) <= om.maxObstaclesOnScreen

\* C6 as amended: the number of active obstacles is at most 20 + 2 * L, where
\* L is the highest level any update has computed since the last reset.
C6_ActiveWithinHighestCap ==
    Len(om.activeObstacles) <= maxObstaclesOf(hist.maxLevel)

\* C6 witness: the level has dropped while the active obstacles fill the cap
\* of the higher level.
C6_Witness ==
    /\ om.difficultyLevel < hist.maxLevel
    /\ Len(om.activeObstacles) = maxObstaclesOf(hist.maxLevel)

(***************************************************************************)
(* SpecPlayer: a Player under calls of update, takeDamage, die and reset.  *)
(***************************************************************************)

\* The number of Player.update calls of a run.
MaxUpdates == 2

\* The number of Player.die calls between two resets.
MaxDieCalls == 3

\* Body positions the physics step leaves: on the slope, on the limits, beyond
\* either side limit, below the fall limit.
PlayerPositions ==
    {<<0, 5, 0>>, <<sideLimit, fallLimit, 0>>, <<sideLimit + 1, 5, 0>>,
     <<-sideLimit - 1, 5, 0>>, <<0, fallLimit - 1, 0>>}

\* Damage amounts, in units of 1/500: 50 and 100 health points.
DamageAmounts500 == {25000, 50000}

PlayerUpdateCall ==
    /\ hist.ticks < MaxUpdates
    /\ \E pos \in PlayerPositions, grounded \in BOOLEAN, rag \in Ragdolls :
           LET m == PlayerUpdate([St EXCEPT !.p.pos = pos], 10, grounded, rag)
           IN  Becomes([m EXCEPT !.h.ticks = @ + 1])

PlayerTakeDamageCall ==
    /\ ~player.isDead
    /\ \E amount500 \in DamageAmounts500, rag \in Ragdolls :
           Becomes(takeDamage(St, amount500, rag))

PlayerDieCall ==
    /\ hist.dieCalls < MaxDieCalls
    /\ \E rag \in Ragdolls : Becomes(die(St, rag))

PlayerResetCall ==
    /\ dom.playerDiedEvents < MaxDeaths
    /\ Becomes(PlayerReset(St))

NextPlayer ==
    \/ PlayerUpdateCall
    \/ PlayerTakeDamageCall
    \/ PlayerDieCall
    \/ PlayerResetCall

SpecPlayer == InitConstructed /\ [][NextPlayer]_vars

\* C9: of the calls of die() between two resets, the first sends one
\* player-died event and every later one sends none and leaves health, the
\* dead flag and the body velocity unchanged.
C9_DieIdempotent ==
    [][hist'.dieCalls > hist.dieCalls =>
          IF hist.dieCalls = 0
          THEN /\ dom'.playerDiedEvents = dom.playerDiedEvents + 1
               /\ player'.isDead
          ELSE /\ dom'.playerDiedEvents = dom.playerDiedEvents
               /\ player'.health500 = player.health500
               /\ player'.isDead = player.isDead
               /\ player'.vel350 = player.vel350
               /\ player'.angVel = player.angVel]_vars

\* C9 witness: die() was called a second time on a dead player.
C9_Witness == player.isDead /\ hist.dieCalls >= 2

\* C15: an update of the living player whose body is beyond a side limit or
\* below the fall limit ends with the player dead and player-died signalled,
\* whatever the health.
C15_OutOfBoundsDies ==
    [][(/\ hist'.updatesSinceReset > hist.updatesSinceReset
        /\ \/ Abs(player'.pos[1]) > sideLimit
           \/ player'.pos[2] < fallLimit) =>
           /\ player'.isDead
           /\ dom'.playerDiedEvents = dom.playerDiedEvents + 1
           /\ dom'.gameOverShown]_vars

\* C15 witness: the player died at full health, beyond the side limit.
C15_Witness ==
    /\ player.isDead
    /\ player.health500 = fullHealth500
    /\ Abs(player.pos[1]) > sideLimit
    /\ dom.playerDiedEvents = hist.eventsAtReset + 1

(***************************************************************************)
(*                                 GAME                                    *)
(* game.queued counts the animate callbacks requestAnimationFrame holds    *)
(* for the next display refresh, game.inFrame those of the refresh being   *)
(* served that have not run yet.                                           *)
(***************************************************************************)

\* Game.init: the physics world, the terrain, the player and the obstacle
\* manager are constructed, in this order, unless already initialized.
init(m, fails) ==
    IF m.g.isInitialized
    THEN m
    ELSE LET terrained == NewTerrain([m EXCEPT !.w = {}], m.t.gen + 1, fails)
         IN  [terrained EXCEPT !.p = NewPlayer,
                               !.w = @ \cup {playerBody},
                               !.o = NewObstacleManager,
                               !.g.isInitialized = TRUE]

\* Game.updateScoreDisplay
updateScoreDisplay(m) == [m EXCEPT !.d.scoreText = m.g.score]

\* this.terrain = new Terrain(this.scene, this.physics) of Game.resetGame:
\* the bodies of the old terrain stay in the world.
replaceTerrain(m, fails) == NewTerrain(m, m.t.gen + 1, fails)

\* Game.resetGame
resetGame(m, fails) ==
    [replaceTerrain(
         ObstaclesReset(PlayerReset(
             updateScoreDisplay([m EXCEPT !.g.score = 0]))),
         fails)
     EXCEPT !.d.gameOverShown = FALSE]

\* this.physics.update(deltaTime) of Game.updateGame: the step leaves the
\* player's body at inp.pos.  m.h.ticks is history: the number of updateGame
\* calls.
physicsUpdate(m, inp) ==
    [m EXCEPT !.p.pos = inp.pos, !.o.threw = FALSE, !.h.ticks = @ + 1]

\* this.terrain.update(this.player.getPosition()) of Game.updateGame
terrainUpdateStep(m, inp) == TerrainUpdate(m, m.p.pos[3], inp.terrainFail)

\* The obstacle block of Game.updateGame, not reached when Terrain.update
\* threw.
obstaclesUpdateStep(m, inp) ==
    IF m.t.threw THEN m ELSE updateObstaclesStep(m, inp.rnd, inp.fail, inp.rag)

\* The score block of Game.updateGame, not reached after an exception.
scoreUpdateStep(m) ==
    IF m.t.threw \/ m.o.threw \/ m.p.isDead
    THEN m
    ELSE updateScoreDisplay([m EXCEPT !.g.score = getObstaclesAvoided(m.o)])

\* Game.updateGame(deltaTime).  inp holds what the tick reads from outside:
\* the position the physics step leaves the player's body at, the ray cast,
\* the random draws, the outcomes of the body constructions.
updateGame(m, inp) ==
    scoreUpdateStep(obstaclesUpdateStep(terrainUpdateStep(
        PlayerUpdate(physicsUpdate(m, inp), inp.dt100, inp.grounded, inp.rag),
        inp), inp))

\* requestAnimationFrame(this.animate.bind(this))
requestAnimationFrame(m) == [m EXCEPT !.g.queued = @ + 1]

\* The catch block of Game.animate without this.isRunning = false.
catchGameErrorRunning(m) ==
    IF m.t.threw \/ m.o.threw
    THEN [m EXCEPT !.d.alerts = @ + 1]
    ELSE m

\* The catch block of Game.animate: an exception stops the loop and raises
\* an alert.
catchGameError(m) ==
    IF m.t.threw \/ m.o.threw
    THEN [m EXCEPT !.g.isRunning = FALSE, !.d.alerts = @ + 1]
    ELSE m

\* Game.animate: requests the next frame while the game is running, updates
\* unless paused.
animate(m, inp) ==
    IF ~m.g.isRunning THEN m
    ELSE IF m.g.isPaused THEN requestAnimationFrame(m)
    ELSE catchGameError(updateGame(requestAnimationFrame(m), inp))

\* Game.startGame
startGame(m, fails, inp) ==
    animate([resetGame(init(m, fails), fails) EXCEPT
                 !.d.startScreenShown = FALSE,
                 !.g.isRunning = TRUE,
                 !.g.isPaused = FALSE], inp)

\* Game.restartGame
restartGame(m, fails, inp) ==
    startGame([m EXCEPT !.d.gameOverShown = FALSE], fails, inp)

\* Game.togglePause
togglePause(m) ==
    IF ~m.g.isRunning THEN m ELSE [m EXCEPT !.g.isPaused = ~@]

(***************************************************************************)
(* SpecGame: the game under clicks of the start and restart buttons, the   *)
(* Escape key, and the display refreshes that serve the animate callbacks. *)
(***************************************************************************)

\* The number of updateGame calls of a run.
MaxTicks == 4

\* The number of Terrain instances (init and every resetGame make one).
MaxTerrains == 4

\* Positions the physics step leaves the player at: the start, the first
\* obstacle, beyond the side limit, beyond the side limit below the first
\* obstacle.
GamePositions ==
    {<<0, 5, 0>>, <<0, 0, -100>>, <<sideLimit + 1, 5, 0>>,
     <<sideLimit + 1, 5, -100 - passedMargin - 1>>}

\* What a tick reads from outside.
GameInputs ==
    [pos : GamePositions, dt100 : {10}, grounded : {TRUE},
     rag : {[impulse |-> <<0, 0, 0>>, spin |-> <<0, 0, 0>>]},
     terrainFail : {FALSE},
     rnd : NoSpawnDraws \cup
           [trial : {0}, x : {5}, type : {0}, esc : {9}, gap : {0}],
     fail : BOOLEAN]

\* Events are handled between display refreshes, not between the callbacks of
\* one refresh.
BetweenFrames == game.inFrame = 0

\* A click on the start button, shown on the start screen
ClickStart ==
    /\ BetweenFrames
    /\ dom.startScreenShown
    /\ \E inp \in GameInputs : Becomes(startGame(St, {}, inp))

\* A click on the restart button, shown on the game-over screen
ClickRestart ==
    /\ BetweenFrames
    /\ dom.gameOverShown
    /\ terrain.gen + 1 < MaxTerrains
    /\ hist.ticks < MaxTicks
    /\ \E inp \in GameInputs : Becomes(restartGame(St, {}, inp))

\* The Escape key
KeyEscape ==
    /\ BetweenFrames
    /\ Becomes(togglePause(St))

\* A display refresh: the scheduler takes the callbacks requested so far.
\* hist.updatesInFrame is history: the updateGame calls made by the callbacks
\* of the refresh being served.
BeginFrame ==
    /\ BetweenFrames
    /\ game.queued > 0
    /\ hist.ticks < MaxTicks
    /\ Becomes([St EXCEPT !.g.inFrame = St.g.queued, !.g.queued = 0,
                          !.h.updatesInFrame = 0])

\* The updateGame calls made since ticksBefore add to hist.updatesInFrame.
countUpdates(m, ticksBefore) ==
    [m EXCEPT !.h.updatesInFrame = @ + (m.h.ticks - ticksBefore)]

\* The scheduler runs one of the callbacks it took.
AnimateCallback ==
    /\ game.inFrame > 0
    /\ \E inp \in GameInputs :
           Becomes(countUpdates(
               animate([St EXCEPT !.g.inFrame = @ - 1], inp), hist.ticks))

NextGame ==
    \/ ClickStart
    \/ ClickRestart
    \/ KeyEscape
    \/ BeginFrame
    \/ AnimateCallback

SpecGame == InitConstructed /\ [][NextGame]_vars

\* C10 as stated: at most one animate callback is pending with the
\* animation-frame scheduler, and updateGame runs at most once per display
\* refresh.
C10_OneCallbackPending ==
    /\ game.queued + game.inFrame <= 1
    /\ hist.updatesInFrame <= 1

\* C18 as stated: between two ticks that both find the player dead, with no
\* reset and no death in between, neither Game.score nor the text of the
\* score element changes.
C18_ScoreFrozenByDeath ==
    [][(/\ player.isDead /\ player'.isDead
        /\ dom'.playerDiedEvents = dom.playerDiedEvents) =>
           /\ game'.score = game.score
           /\ dom'.scoreText = dom.scoreText]_vars

TerrainBodiesInWorld == {b \in world : b[1] = "terrain"}

\* C28 as stated: the terrain bodies registered in the world are exactly the
\* bodies of the current Terrain instance.
C28_OnlyCurrentTerrainBodies ==
    TerrainBodiesInWorld = {e.body : e \in Range(terrain.terrainBodies)}

\* C20 as stated: after a tick in which the construction of an obstacle's
\* body threw, the obstacle is active and the frame loop is still running,
\* with no error raised.
C20_SpawnFailureContained ==
    om.threw =>
        /\ game.isRunning
        /\ om.activeObstacles # <<>>
        /\ dom.alerts = 0

(***************************************************************************)
(* SpecRamp: a Player on the slope under update and reset calls, long      *)
(* enough for the speed to reach maxSpeed.                                 *)
(***************************************************************************)

\* The number of Player.update calls between two resets.
MaxRampUpdates == 1252

\* The number of updates after which 50 + 0.2 * n reaches 300
rampLength == 1250

RampUpdate ==
    /\ hist.updatesSinceReset < MaxRampUpdates
    /\ \E rag \in Ragdolls :
           Becomes(PlayerUpdate([St EXCEPT !.p.pos = <<0, 5, 0>>], 10, TRUE, rag))

RampReset == Becomes(PlayerReset(St))

NextRamp == RampUpdate \/ RampReset

SpecRamp == InitConstructed /\ [][NextRamp]_vars

\* C12: after every step the speed is within [0, maxSpeed], and no update
\* decreases it.
C12_SpeedClampedMonotonic ==
    [][/\ ~DoubleLess(player'.speed, DoubleOf(0))
       /\ ~DoubleLess(maxSpeed, player'.speed)
       /\ player'.speed5 >= 0 /\ player'.speed5 <= maxSpeed5
       /\ hist'.updatesSinceReset > hist.updatesSinceReset =>
              /\ ~DoubleLess(player'.speed, player.speed)
              /\ player'.speed5 >= player.speed5]_vars

\* C12 witness: the ramp has reached maxSpeed and updates go on.
C12_Witness ==
    /\ hist.hasReset
    /\ hist.updatesSinceReset > rampLength
    /\ player.speed = maxSpeed

\* C13 as stated: 1250 or more updates after a reset the speed is exactly 300.
C13_RampReachesMax ==
    (hist.hasReset /\ hist.updatesSinceReset >= rampLength) =>
        player.speed = maxSpeed

(***************************************************************************)
(* SpecDamage: Player.checkObstacleCollision against one active obstacle,  *)
(* for a player of any of DamageSpeeds and DamageHealths and an obstacle   *)
(* of any type, from positions on either side of every collision          *)
(* distance.                                                               *)
(***************************************************************************)

\* Player speeds: 50, 100 and 300
DamageSpeeds == {50, 100, 300}

\* Player health, in units of 1/500: 100 and 10
DamageHealths500 == {fullHealth500, 5000}

\* Body positions at distance 0, 1, 2, 3 and 5 of the obstacle at (0, 0, -100)
DamagePositions ==
    {<<x, 0, -100>> : x \in 0..3} \cup {<<0, 5, -100>>}

\* The state with the player at speed and health500 and one obstacle of type
\* typeData active at (0, 0, -100).
WithPlayerAndObstacle(speed, health500, typeData) ==
    LET made == createObstacle(Constructed, typeData, 0, -100, FALSE)
    IN  [made.m EXCEPT !.o.activeObstacles = <<made.obstacle>>,
                       !.p.speed = DoubleOf(speed),
                       !.p.speed5 = 5 * speed,
                       !.p.health500 = health500]

InitDamage ==
    \E speed \in DamageSpeeds, health500 \in DamageHealths500,
       t \in 1..Len(obstacleTypesData) :
        LET m == WithPlayerAndObstacle(speed, health500, obstacleTypesData[t])
        IN  /\ terrain = m.t
            /\ om = m.o
            /\ player = m.p
            /\ game = m.g
            /\ world = m.w
            /\ dom = m.d
            /\ hist = m.h

\* The physics step moves the living player's body, then
\* checkObstacleCollision is called with the active obstacle.
CollisionCheckCall ==
    /\ ~player.isDead
    /\ \E pos \in DamagePositions, rag \in Ragdolls :
           Becomes(checkObstacleCollision(
                       [St EXCEPT !.p.pos = pos], om.activeObstacles[1], rag).m)

NextDamage == CollisionCheckCall

SpecDamage == InitDamage /\ [][NextDamage]_vars

\* C14: a check with the centres closer than collisionRadius + 0.5 takes
\* speed * damageMultiplier * 0.1 off the health (speed5 * damageMultiplier10
\* in units of 1/500); any other check leaves the health as it was.
C14_DamageBySpeedAndType ==
    [][LET ob == om.activeObstacles[1]
           dx == player'.pos[1] - ob.x
           dy == player'.pos[2]
           dz == player'.pos[3] - ob.z
           reach10 == ob.collisionRadius10 + 5
       IN  IF 100 * (dx * dx + dy * dy + dz * dz) < reach10 * reach10
           THEN player.health500 - player'.health500 =
                    player.speed5 * ob.damageMultiplier10
           ELSE player'.health500 = player.health500]_vars

\* C14 witness: speed 100, multiplier 1.5, health 100 gave health 85.
C14_Witness ==
    /\ player.speed5 = 500
    /\ om.activeObstacles[1].damageMultiplier10 = 15
    /\ om.activeObstacles[1].id \in hist.hitThisSpawn
    /\ player.health500 = 85 * 500

(***************************************************************************)
(* SpecControls: a Player on the slope under key presses and releases,     *)
(* jump, update and reset calls.                                           *)
(***************************************************************************)

\* The number of Player.update calls between two resets.
MaxControlUpdates == 2

\* The number of Player.jump calls between two resets.
MaxJumpCalls == 2

\* The keys the listeners look at, and one they ignore
KeyCodes == {"KeyA", "KeyD", "Space", "KeyW"}

KeyDown ==
    /\ hist.jumpCalls < MaxJumpCalls
    /\ \E code \in KeyCodes : Becomes(keydown(St, code))

KeyUp == \E code \in KeyCodes : Becomes(keyup(St, code))

JumpCall ==
    /\ hist.jumpCalls < MaxJumpCalls
    /\ Becomes(jump(St))

ControlsUpdate ==
    /\ hist.updatesSinceReset < MaxControlUpdates
    /\ \E grounded \in BOOLEAN, rag \in Ragdolls :
           Becomes(PlayerUpdate([St EXCEPT !.p.pos = <<0, 5, 0>>],
                                10, grounded, rag))

ControlsReset == Becomes(PlayerReset(St))

NextControls ==
    \/ KeyDown
    \/ KeyUp
    \/ JumpCall
    \/ ControlsUpdate
    \/ ControlsReset

SpecControls == InitConstructed /\ [][NextControls]_vars

\* C16 as stated: an update with both the left and the right input held
\* applies no lateral impulse: the body's x velocity is unchanged.
C16_BothHeldNoImpulse ==
    [][(/\ hist'.updatesSinceReset > hist.updatesSinceReset
        /\ player.moveLeft /\ player.moveRight) =>
           player'.vel350[1] = player.vel350[1]]_vars

\* C17: a call of jump() on a grounded player that is not jumping adds the
\* jump impulse (jumpForce / mass, 75 in units of 1/350) to the y velocity and
\* sets the jumping flag; any other call changes nothing.  The flag is cleared
\* only by a reset or by an update whose probe reports grounded.
C17_JumpOnlyGrounded ==
    [][/\ hist'.jumpCalls > hist.jumpCalls =>
              IF player.isGrounded /\ ~player.isJumping
              THEN player' = [player EXCEPT !.isJumping = TRUE,
                                            !.vel350[2] = @ + 75]
              ELSE player' = player
       /\ (player.isJumping /\ ~player'.isJumping) =>
              \/ hist'.jumpCalls < hist.jumpCalls
              \/ /\ hist'.updatesSinceReset > hist.updatesSinceReset
                 /\ player'.isGrounded
       /\ (~player.isJumping /\ player'.isJumping) =>
              hist'.jumpCalls > hist.jumpCalls]_vars

\* C17 witness: a jump was made, and a second call while jumping followed.
C17_Witness == player.isJumping /\ hist.jumpCalls >= 2

(***************************************************************************)
(* SpecNoise: calls of generateNoise with any number of octaves from -1 to *)
(* MaxOctaves, persistence 0.5 or 1, and any samples of the noise field.   *)
(***************************************************************************)

\* The octaves argument of a call
OctaveCounts == -1 .. MaxOctaves

\* The persistence argument of a call, in halves
Persistences2 == {1, 2}

\* perlinNoise.noise at the sampled points
NoiseSamples == [1 .. MaxOctaves -> {-1, 0, 1}]

GenerateNoiseCall ==
    \E samples \in NoiseSamples, octaves \in OctaveCounts,
       persistence2 \in Persistences2 :
        Becomes(generateNoiseCalled(St, samples, octaves, persistence2))

NextNoise == GenerateNoiseCall

SpecNoise == InitConstructed /\ [][NextNoise]_vars

\* C19 as stated: a call of generateNoise with octaves <= 0 fails with
\* InvalidArgument instead of returning a value.
C19_NonPositiveOctavesRejected ==
    (hist.noise.called /\ hist.noise.octaves <= 0) =>
        hist.noise.result.thrown = "InvalidArgument"

(***************************************************************************)
(* SpecDifficulty: updateDifficulty at any player position, and the        *)
(* material choice of generateChunk for any chunk index.                   *)
(***************************************************************************)

\* The level up to which positions are drawn.
MaxLevel == 4

\* The largest chunk index a material is chosen for.
MaxIceChunk == 10

\* Player z positions: both ends of every level, downhill and uphill of the
\* origin.
DifficultyZs ==
    {s * (levelLength * k + e) :
        s \in {-1, 1}, k \in 0 .. MaxLevel - 1, e \in {0, 1, levelLength - 1}}

UpdateDifficultyCall ==
    \E z \in DifficultyZs :
        Becomes(updateDifficulty([St EXCEPT !.p.pos = <<0, 5, z>>],
                                 <<0, 5, z>>))

ChooseMaterialCall ==
    \E chunkIndex \in 0 .. MaxIceChunk, r \in {0, 5, 9} :
        Becomes(chooseMaterial(St, chunkIndex, r))

NextDifficulty ==
    \/ UpdateDifficultyCall
    \/ ChooseMaterialCall

SpecDifficulty == InitConstructed /\ [][NextDifficulty]_vars

\* C22: the level is 1 + floor(distance / 500) and does not decrease when the
\* distance does not; the spawn frequency, the cap and the spread do not
\* decrease when the level does not; the ice factor does not decrease when
\* the chunk index does not, and is never above 0.8.
C22_DifficultyMonotonic ==
    [][/\ om'.difficultyLevel = 1 + (Abs(player'.pos[3]) \div 500)
       /\ Abs(player.pos[3]) <= Abs(player'.pos[3]) =>
              om.difficultyLevel <= om'.difficultyLevel
       /\ om.difficultyLevel <= om'.difficultyLevel =>
              /\ om.obstacleSpawnFrequency100 <= om'.obstacleSpawnFrequency100
              /\ om.maxObstaclesOnScreen <= om'.maxObstaclesOnScreen
              /\ om.obstacleSpread <= om'.obstacleSpread
       /\ om'.obstacleSpawnFrequency100 = 20 + 5 * om'.difficultyLevel
              \/ om' = om
       /\ hist.material.chunkIndex <= hist'.material.chunkIndex =>
              hist.material.iceFactor10 <= hist'.material.iceFactor10
       /\ hist'.material.iceFactor10 <= 8]_vars

\* C22 witness: the player is uphill of the origin in the fourth level, and
\* the last material was chosen with the ice factor at its ceiling.
C22_Witness ==
    /\ player.pos[3] > 0 /\ om.difficultyLevel = 4
    /\ om.maxObstaclesOnScreen = 28 /\ om.obstacleSpread = 50
    /\ hist.material.chunkIndex > 8 /\ hist.material.iceFactor10 = 8

(***************************************************************************)
(* SpecTypes: the type choice of generateObstacle for any two draws, at    *)
(* any difficulty level.                                                   *)
(***************************************************************************)

\* Math.random() = r/10
TypeDraws == 0 .. 9

ChooseTypeCall ==
    \E rType \in TypeDraws, rEsc \in TypeDraws :
        Becomes(chooseType(St, rType, rEsc))

NextTypes ==
    \/ UpdateDifficultyCall
    \/ ChooseTypeCall

SpecTypes == InitConstructed /\ [][NextTypes]_vars

\* C26 as stated: the type index used is a valid index of the four kinds, and
\* the damageMultiplier of the type used is at least that of the type first
\* chosen.
C26_EscalationMoreDangerous ==
    hist.typeChoice.chosen =>
        /\ hist.typeChoice.final \in 0 .. Len(obstacleTypesData) - 1
        /\ obstacleTypesData[hist.typeChoice.final + 1].damageMultiplier10 >=
               obstacleTypesData[hist.typeChoice.initial + 1].damageMultiplier10

(***************************************************************************)
(* SpecHeightfield: the collision height field addTerrainPhysics builds    *)
(* from the heightData of generateChunk, looked at sample by sample.       *)
(***************************************************************************)

\* The columns looked at: the first two, the last of the render grid, the
\* one after it, the last of the collision grid.
SampleColumns == {0, 1, renderSegments, renderSegments + 1, segments}

SampleCall ==
    \E i \in 0 .. segments, j \in SampleColumns :
        Becomes(sampleCollision(St, i, j))

NextHeightfield == SampleCall

SpecHeightfield == InitConstructed /\ [][NextHeightfield]_vars

\* C27 as stated: the collision height field has as many samples per side as
\* the render grid, and collision sample [i][j] is the height computed for
\* the render vertex with the same grid indices.
C27_HeightFieldInLockStep ==
    hist.sample.probed =>
        /\ collisionSide = renderSide
        /\ hist.sample.height = vertexHeight(hist.sample.i, hist.sample.j)

(***************************************************************************)
(* SpecStream: a Terrain under the update calls of a run in which the      *)
(* player starts in chunk 0 and, from one update to the next, stays in its *)
(* chunk or enters the next one.  Any body construction may fail; an       *)
(* update that throws ends the run (Game.animate stops the loop).          *)
(***************************************************************************)

\* The chunk the player's body is in
playerChunk == playerChunkIndexOf(player.pos[3])

StreamTick ==
    /\ ~terrain.threw
    /\ \E z \in TerrainZs, fail \in BOOLEAN :
           /\ playerChunkIndexOf(z) \in {playerChunk, playerChunk + 1}
           /\ Becomes(TerrainUpdate([St EXCEPT !.p.pos = <<0, 5, z>>], z, fail))

NextStream == StreamTick

SpecStream == InitTerrain /\ [][NextStream]_vars

MaxScoreTicks == 22

\* Positions the physics step leaves the player's body at: the start, inside
\* the first obstacle (z = -100), inside the second (z = -120) and past the
\* first, the same beyond the side limit.
ScorePositions ==
    {<<0, 5, 0>>, <<0, 0, -100>>, <<0, 0, -119>>, <<sideLimit + 1, 5, -119>>}

\* What a tick reads from outside, for the draws of generateObstacle given
ScoreInputs(draws) ==
    [pos : ScorePositions, dt100 : {10}, grounded : {TRUE},
     rag : {[impulse |-> <<0, 0, 0>>, spin |-> <<0, 0, 0>>]},
     terrainFail : {FALSE}, rnd : draws, fail : {FALSE}]

\* The draws of a tick: a spawn of a tree at x = 0 while fewer than MaxSpawns
\* obstacles were spawned
ScoreDraws ==
    IF hist.spawns < MaxSpawns
    THEN NoSpawnDraws \cup [trial : {0}, x : {5}, type : {0}, esc : {9}, gap : {0}]
    ELSE NoSpawnDraws

\* A click on the start button
ScoreStart ==
    /\ dom.startScreenShown
    /\ \E inp \in ScoreInputs(ScoreDraws) :
           /\ inp.pos = <<0, 5, 0>>
           /\ Becomes(startGame(St, {}, inp))

\* A display refresh serves the pending animate callback; the body has not
\* moved uphill.
ScoreFrame ==
    /\ game.queued > 0
    /\ hist.ticks < MaxScoreTicks
    /\ \E inp \in ScoreInputs(ScoreDraws) :
           /\ inp.pos[3] <= player.pos[3]
           /\ Becomes(animate([St EXCEPT !.g.queued = @ - 1], inp))

NextFinalScore ==
    \/ ScoreStart
    \/ ScoreFrame

SpecFinalScore == InitConstructed /\ [][NextFinalScore]_vars

\* C30 as stated: the final score shown is what getObstaclesAvoided() returned
\* when the player-died event was handled.
C30_FinalScoreIsAvoidedCount == dom.finalScoreText = hist.avoidedAtDeath

=============================================================================
